---- MODULE Spec2Model ----
(***************************************************************************)
(* A model of gbt.ipynb: gradient boosted trees on five MoleculeNet         *)
(* datasets.  The notebook is a straight-line program: a loading loop over  *)
(* the five datasets (label extraction, missing-label filter, load-time     *)
(* assertions), then a training loop (prepare_dataset, class weights, fit,  *)
(* compute_metrics) that fills the dictionaries models and results.         *)
(*                                                                         *)
(* Floats are kept as integers in units of 1e-8 (Scale), which holds every  *)
(* float the model uses and the tolerances of torch.isclose exactly; NaN is *)
(* a value of its own, and every comparison with it is false.  Rationals    *)
(* (class weights, metrics) are kept as fractions.                          *)
(***************************************************************************)
EXTENDS Integers, Sequences, FiniteSets, TLC

VARIABLES
    xname,      \* extraction run: the dataset name whose transform is applied
    xraw,       \* extraction run: the raw samples the loader supplied (data, line 115)
    xout,       \* extraction run: the outcome of pd.Series(filter(map(...))) (line 118)
    xdone,      \* extraction run: TRUE once line 118 has run
    stream,     \* the variates of np.random.default_rng(seed=0), in order
    rdlog,      \* TRUE while RDKit's rdApp.* log is enabled
    ncalls,     \* partition run: the calls of prepare_dataset made so far
    pdata,      \* partition run: the argument of the latest call
    pout,       \* partition run: what the latest call returned or raised
    pfirst,     \* partition run: the argument and the outcome of the first call,
                \* and whether a call on other data has followed it
    mmodel,     \* metrics run: the model passed to compute_metrics
    mdf,        \* metrics run: the table passed to compute_metrics
    mthreshold, \* metrics run: the threshold passed to compute_metrics
    mout,       \* metrics run: what compute_metrics returned or raised
    mdone,      \* metrics run: TRUE once compute_metrics has been called
    pc,         \* the notebook: the statement to run next: "load" (lines 113-130),
                \* "prepare" (744), "weights" (750), "fit" (753-768), "metrics"
                \* (772-778), "done", or "failed" after an exception
    idx,        \* the notebook: the place in transforms / datasets of the loop
    datasets,   \* the notebook: datasets, name -> the filtered samples
    df_train,   \* the notebook: the tables of the dataset being trained
    df_valid,
    df_tests,
    class_weights,  \* the notebook: class_weights of the dataset being trained
    models,     \* the notebook: models, name -> model
    results,    \* the notebook: results, name -> the metrics of the three tables
    raised      \* the notebook: the exception that ended the run, "" if none

xvars == <<xname, xraw, xout, xdone>>
gvars == <<stream, rdlog>>
pvars == <<ncalls, pdata, pout, pfirst>>
mvars == <<mmodel, mdf, mthreshold, mout, mdone>>
nvars == <<pc, idx, datasets, df_train, df_valid, df_tests, class_weights,
           models, results, raised>>
vars == <<xvars, gvars, pvars, mvars, nvars>>

----------------------------------------------------------------------------
(* Floats *)

Scale == 10^8
One == Scale
Half == Scale \div 2
NaN == 0 - 1
\* the float32 next above 1.0 is 1 + 2^-23 = 1.00000012
OnePlusUlp == One + 12
\* the cutoff of transform_lipo, 3.5
Cutoff == 7 * Half
\* the float32 next above 3.5 is 3.5 + 2^-22 = 3.50000024
AboveCutoff == Cutoff + 24

Abs(a) == IF a < 0 THEN 0 - a ELSE a

\* tensor > scalar, elementwise: false on NaN
gt(a, b) == a # NaN /\ b # NaN /\ a > b

\* torch.isclose(a, b) with its defaults rtol = 1e-05, atol = 1e-08:
\* |a - b| <= atol + rtol * |b|, false on NaN
isclose(a, b) ==
    /\ a # NaN
    /\ b # NaN
    /\ Abs(a - b) <= (Scale \div 10^8) + (Abs(b) \div 10^5)

----------------------------------------------------------------------------
(* Tensors: a dtype, a shape and the elements in row-major order *)

Tensor(dtype, shape, data) == [dtype |-> dtype, shape |-> shape, data |-> data]

numel(t) == Len(t.data)

\* Tensor.squeeze(): every dimension of size 1 is removed
squeeze(t) == [t EXCEPT !.shape = SelectSeq(t.shape, LAMBDA d : d # 1)]

\* t[k] is defined for a tensor of at least one dimension whose first
\* dimension is longer than k; otherwise it raises IndexError
CanIndex(t, k) == Len(t.shape) >= 1 /\ k < t.shape[1]

\* t[k], k counted from 0: the k-th slice along the first dimension
index(t, k) ==
    LET sz == numel(t) \div t.shape[1]
    IN  [t EXCEPT !.shape = Tail(t.shape),
                  !.data = SubSeq(t.data, k * sz + 1, (k + 1) * sz)]

\* (t > c).float(): elementwise comparison, as float32
gt_float(t, c) ==
    [t EXCEPT !.dtype = "float32",
              !.data = [i \in 1..Len(t.data) |->
                            IF gt(t.data[i], c) THEN One ELSE 0]]

----------------------------------------------------------------------------
(* Label extraction.  A transform returns [raised, sample]: raised is the  *)
(* exception it ends with ("" for none), sample the transformed copy.       *)

Returned(sample) == [raised |-> "", sample |-> sample]
Raised(exc, sample) == [raised |-> exc, sample |-> sample]

\* a slip: >= for >
transform_lipo_ge(sample) ==
    LET ge == [sample.y EXCEPT !.dtype = "float32",
                  !.data = [i \in 1..Len(sample.y.data) |->
                      IF sample.y.data[i] # NaN /\ sample.y.data[i] >= Cutoff
                      THEN One ELSE 0]]
    IN  Returned([sample EXCEPT !.y = squeeze(ge)])

transform_lipo(sample) ==
    Returned([sample EXCEPT !.y = squeeze(gt_float(sample.y, Cutoff))])

transform_hiv(sample) ==
    Returned([sample EXCEPT !.y = squeeze(sample.y)])

transform_bppp(sample) ==
    Returned([sample EXCEPT !.y = squeeze(sample.y)])

transform_tox21(sample) ==
    LET s == squeeze(sample.y)
    IN  IF CanIndex(s, 2)
        THEN Returned([sample EXCEPT !.y = index(s, 2)])
        ELSE Raised("IndexError", sample)

\* a slip: the index taken without the squeeze
transform_clintox_unsqueezed(sample) ==
    IF CanIndex(sample.y, 0)
    THEN Returned([sample EXCEPT !.y = index(sample.y, 0)])
    ELSE Raised("IndexError", sample)

transform_clintox(sample) ==
    LET s == squeeze(sample.y)
    IN  IF CanIndex(s, 0)
        THEN Returned([sample EXCEPT !.y = index(s, 0)])
        ELSE Raised("IndexError", sample)

\* the dictionary transforms, in its insertion order
Names == <<"lipo", "hiv", "bbbp", "clintox", "tox21">>

transforms(name, sample) ==
    CASE name = "lipo" -> transform_lipo(sample)
      [] name = "hiv" -> transform_hiv(sample)
      [] name = "bbbp" -> transform_bppp(sample)
      [] name = "clintox" -> transform_clintox(sample)
      [] name = "tox21" -> transform_tox21(sample)

\* bool(tensor), which "not tensor" calls, is defined for a tensor of
\* exactly one element; otherwise it raises RuntimeError
HasTruthValue(t) == numel(t) = 1

\* a slip: the "not" left out
is_y_na(sample) == sample.y.data[1] = NaN

\* not torch.isnan(sample.y), for a sample whose y has a truth value
is_y_not_na(sample) == sample.y.data[1] # NaN

\* pd.Series(filter(is_y_not_na, map(transform, data))): the samples are
\* transformed and tested one by one in order, the survivors collected;
\* the first exception ends the iteration and nothing is returned
RECURSIVE Collect(_, _, _, _)
Collect(name, data, i, kept) ==
    IF i > Len(data) THEN [raised |-> "", data |-> kept]
    ELSE LET r == transforms(name, data[i])
         IN  IF r.raised # "" THEN [raised |-> r.raised, data |-> <<>>]
             ELSE IF ~HasTruthValue(r.sample.y)
                  THEN [raised |-> "RuntimeError", data |-> <<>>]
             ELSE IF is_y_not_na(r.sample)
                  THEN Collect(name, data, i + 1, Append(kept, r.sample))
             ELSE Collect(name, data, i + 1, kept)

Series(name, data) == Collect(name, data, 1, <<>>)

----------------------------------------------------------------------------
(* The extraction run: one dataset's raw samples through lines 116-118 *)

\* the longest raw dataset of the extraction run
MaxRaw == 3

\* the label values a well-formed raw tensor of a dataset holds at the
\* place its extractor reads
RawValues(name) ==
    IF name = "lipo" THEN {NaN, 0, Cutoff, AboveCutoff}
    ELSE {NaN, 0, One}

\* every sequence over a set of values of a given length
Seqs(S, n) == [1..n -> S]

\* the number of label columns of a dataset (tox21 cut to its first three)
tasks(name) ==
    CASE name = "clintox" -> 2
      [] name = "tox21" -> 3
      [] OTHER -> 1

\* the place (from 0) an extractor reads in the squeezed label tensor
fixed_index(name) == IF name = "tox21" THEN 2 ELSE 0

\* the well-formed label tensors of a dataset: MoleculeNet gives y the
\* shape [1, tasks], float32; the columns the extractor does not read are
\* NaN or 1.0
WellFormed(name) ==
    {Tensor("float32", <<1, tasks(name)>>, d) :
        d \in {e \in Seqs(RawValues(name) \cup {One}, tasks(name)) :
                  \A j \in 1..tasks(name) :
                      j # fixed_index(name) + 1 => e[j] \in {NaN, One}}}

\* tensors of other shapes, to see what each extractor does with them
OddShapes == {<<>>, <<1>>, <<2>>, <<1, 1>>, <<1, 2>>, <<3>>, <<1, 3>>,
              <<3, 1>>, <<1, 3, 1>>, <<4>>, <<1, 4>>, <<2, 2>>, <<3, 2>>}

RECURSIVE Prod(_)
Prod(shape) == IF shape = <<>> THEN 1 ELSE Head(shape) * Prod(Tail(shape))

OddTensors ==
    UNION {{Tensor("float32", sh, d) : d \in Seqs({NaN, One}, Prod(sh))} :
           sh \in OddShapes}

\* the i-th molecule of a raw dataset is named by i
Sample(i, y) == [smiles |-> i, y |-> y]

RawDatasets(name) ==
    UNION {{[i \in 1..n |-> Sample(i, ys[i])] : ys \in Seqs(WellFormed(name), n)} :
           n \in 0..MaxRaw}
    \cup {<<Sample(1, t)>> : t \in OddTensors}

----------------------------------------------------------------------------
(* Fingerprints.  A SMILES string is named by a number: 0 is a string      *)
(* RDKit cannot parse, m > 0 the string of molecule m.  The bit vector of   *)
(* GenMACCSKeys has one bit for each of the 166 MACCS keys and, before      *)
(* them, bit 0, which is never set.  The keys of molecule m are stood in    *)
(* for by the binary digits of m: the first KeyBits keys vary, the others   *)
(* are not set.                                                             *)

\* the number of keys that vary in the stand-in fingerprint
KeyBits == 4

\* the number of MACCS keys
NumKeys == 166

\* the length of the bit vector: keys 1..166 at bits 1..166, and bit 0
NumBits == NumKeys + 1

NoMol == 0

\* rdkit.Chem.MolFromSmiles: None for a string that does not parse
MolFromSmiles(smiles) == smiles

\* whether key k of the molecule is set
KeySet(mol, k) == k >= 1 /\ k <= KeyBits /\ (mol \div (2^(k - 1))) % 2 = 1

\* MACCSkeys.GenMACCSKeys(mol).ToBitString(): the characters "0" and "1",
\* as their codes 48 and 49, bit 0 first
ToBitString(mol) ==
    [i \in 1..NumBits |-> IF KeySet(mol, i - 1) THEN 49 ELSE 48]

\* np.frombuffer(bytes(s, 'utf-8'), 'u1') - ord('0'): one number for each
\* character of the string
decode(s) == [i \in 1..Len(s) |-> s[i] - 48]

\* the strings of the model: the unparsable one, and one for each pattern
\* of the keys that vary
Smiles == 0..(2^KeyBits)

\* GenMACCSKeys raises on None; otherwise the bit string is decoded
\* byte by byte.  The function is pure, and is tabulated over the strings.
fingerprints ==
    [smiles \in Smiles |->
        LET mol == MolFromSmiles(smiles)
        IN  IF mol = NoMol
            THEN [raised |-> "ArgumentError", x |-> <<>>]
            ELSE [raised |-> "", x |-> decode(ToBitString(mol))]]

smiles2fingerprint(smiles) == fingerprints[smiles]

----------------------------------------------------------------------------
(* prepare_dataset *)

\* the draws are kept in hundredths: 0.8 and 0.9
Frac08 == 80
Frac09 == 90

\* a slip: the generator seeded by the call, not by the constant, so that
\* the k-th call starts k variates further on
train_split_unseeded(n) ==
    [i \in 1..n |-> stream[((i + ncalls - 1) % Len(stream)) + 1]]

\* a slip: >= for > in the test mask
tests_mask_ge(u) == u >= Frac09

\* np.random.default_rng(seed=0).uniform(0, 1, size=n): a fresh generator
\* on every call, so the first n variates of the stream of seed 0
train_split(n) == SubSeq(stream, 1, n)

\* df.iloc[mask]: the rows at which the mask holds, in order
RECURSIVE iloc(_, _)
iloc(df, mask) ==
    IF df = <<>> THEN <<>>
    ELSE (IF Head(mask) THEN <<Head(df)>> ELSE <<>>)
         \o iloc(Tail(df), Tail(mask))

train_mask(u) == u < Frac08
valid_mask(u) == u < Frac09 /\ u >= Frac08
tests_mask(u) == u > Frac09

\* mol.y.numpy().ravel().item(): the one element of y
item(y) == y.data[1]

\* prepare_dataset(data): [raised, df_train, df_valid, df_tests]; a row
\* of a table is [smiles, x, y]
prepare_dataset(data) ==
    LET n == Len(data)
        u == train_split(n)
        fp == [i \in 1..n |-> smiles2fingerprint(data[i].smiles)]
        df == [i \in 1..n |->
                 [smiles |-> data[i].smiles, x |-> fp[i].x, y |-> item(data[i].y)]]
    IN  IF \E i \in 1..n : fp[i].raised # ""
        THEN [raised |-> "ArgumentError",
              df_train |-> <<>>, df_valid |-> <<>>, df_tests |-> <<>>]
        ELSE [raised |-> "",
              df_train |-> iloc(df, [i \in 1..n |-> train_mask(u[i])]),
              df_valid |-> iloc(df, [i \in 1..n |-> valid_mask(u[i])]),
              df_tests |-> iloc(df, [i \in 1..n |-> tests_mask(u[i])])]

\* RDLogger.DisableLog before the tables are built, EnableLog after: the
\* log is enabled again only if nothing was raised in between
LogAfter(out) == out.raised = ""

NoTables == [raised |-> "", df_train |-> <<>>, df_valid |-> <<>>, df_tests |-> <<>>]

----------------------------------------------------------------------------
(* Fractions *)

RECURSIVE GCD(_, _)
GCD(a, b) == IF b = 0 THEN a ELSE GCD(b, a % b)

\* n / d in lowest terms, d > 0
Frac(n, d) == LET g == GCD(n, d) IN [num |-> n \div g, den |-> d \div g]

FracAdd(a, b) ==
    LET l == (a.den \div GCD(a.den, b.den)) * b.den
    IN  Frac(a.num * (l \div a.den) + b.num * (l \div b.den), l)

FracMul(a, b) == Frac(a.num * b.num, a.den * b.den)

\* a score of sklearn with zero_division="warn": 0.0 where the denominator is 0
Ratio(n, d) == IF d = 0 THEN Frac(0, 1) ELSE Frac(n, d)

----------------------------------------------------------------------------
(* compute_metrics.  Probabilities are kept in hundredths.  A model is     *)
(* [class_weights, proba]: proba gives, for a fingerprint, the probability  *)
(* of class 1 the fitted classifier predicts.                               *)

\* model.predict_proba(np.stack(df.x))[:, 1]
predict_proba(model, df) == [i \in 1..Len(df) |-> model.proba[df[i].x]]

\* a slip: >= for > in the binary prediction
predicted_ge(p, threshold) == p >= threshold

\* pred = pred_probs > threshold, one row
predicted(p, threshold) == p > threshold

\* the labels sklearn takes as a binary target: 0.0 and 1.0
IsBinaryTarget(df) == \A i \in 1..Len(df) : df[i].y \in {0, One}

Count(df, P(_)) == Cardinality({i \in 1..Len(df) : P(i)})

\* roc_auc_score: the share of (positive, negative) pairs ranked right,
\* a tie counting one half
roc_auc(df, probs) ==
    LET pos == {i \in 1..Len(df) : df[i].y = One}
        neg == {i \in 1..Len(df) : df[i].y = 0}
        above == Cardinality({pr \in pos \X neg : probs[pr[1]] > probs[pr[2]]})
        ties == Cardinality({pr \in pos \X neg : probs[pr[1]] = probs[pr[2]]})
    IN  Frac(2 * above + ties, 2 * Cardinality(pos) * Cardinality(neg))

SetMax(S) == CHOOSE m \in S : \A k \in S : k <= m

\* auc(recalls, precisions) over precision_recall_curve(true, pred_probs):
\* the trapezoids between the points (recall, precision) of the thresholds,
\* taken from the highest down, starting from the point (0, 1)
RECURSIVE pr_area(_, _, _, _, _, _)
pr_area(df, probs, thresholds, tp0, prec0, area) ==
    IF thresholds = {} THEN area
    ELSE LET t == SetMax(thresholds)
             npos == Count(df, LAMBDA i : df[i].y = One)
             tp == Count(df, LAMBDA i : df[i].y = One /\ probs[i] >= t)
             fp == Count(df, LAMBDA i : df[i].y # One /\ probs[i] >= t)
             prec == Frac(tp, tp + fp)
             piece == FracMul(Frac(tp - tp0, npos),
                              FracMul(FracAdd(prec0, prec), Frac(1, 2)))
         IN  pr_area(df, probs, thresholds \ {t}, tp, prec, FracAdd(area, piece))

pr_auc(df, probs) ==
    pr_area(df, probs, {probs[i] : i \in 1..Len(df)}, 0, Frac(1, 1), Frac(0, 1))

NoMetrics ==
    [accuracy |-> Frac(0, 1), recall |-> Frac(0, 1), precision |-> Frac(0, 1),
     f1 |-> Frac(0, 1), roc_auc |-> Frac(0, 1), pr_auc |-> Frac(0, 1)]

\* compute_metrics(model, df, threshold): [raised, metrics].  np.stack
\* raises ValueError on an empty table, precision_recall_curve on labels
\* other than 0 and 1, roc_auc_score on labels of one class only.
compute_metrics(model, df, threshold) ==
    IF df = <<>> \/ ~IsBinaryTarget(df)
       \/ (\A i \in 1..Len(df) : df[i].y = df[1].y)
    THEN [raised |-> "ValueError", metrics |-> NoMetrics]
    ELSE LET pred_probs == predict_proba(model, df)
             pred(i) == predicted(pred_probs[i], threshold)
             true(i) == df[i].y = One
             tp == Count(df, LAMBDA i : true(i) /\ pred(i))
             fp == Count(df, LAMBDA i : ~true(i) /\ pred(i))
             fn == Count(df, LAMBDA i : true(i) /\ ~pred(i))
             hits == Count(df, LAMBDA i : true(i) <=> pred(i))
         IN  [raised |-> "",
              metrics |->
                [accuracy |-> Frac(hits, Len(df)),
                 recall |-> Ratio(tp, tp + fn),
                 precision |-> Ratio(tp, tp + fp),
                 f1 |-> Ratio(2 * tp, 2 * tp + fp + fn),
                 roc_auc |-> roc_auc(df, pred_probs),
                 pr_auc |-> pr_auc(df, pred_probs)]]

----------------------------------------------------------------------------
(* The load-time assertions *)

\* the number of samples the assertions look at: 100 in the notebook, cut
\* down here
CheckedSamples == 2

\* the three assertions on one sample
passes_assertions(sample) ==
    /\ sample.y.shape = <<>>
    /\ sample.y.dtype = "float32"
    /\ \/ isclose(sample.y.data[1], 0)
       \/ isclose(sample.y.data[1], One)

\* a slip: the assertions left out
load_checks_none(data) == ""

\* for i in range(100): data[i] raises KeyError past the end of the
\* Series, a failed assertion AssertionError; "" if the loop ends
load_checks(data) ==
    LET bad == {i \in 1..CheckedSamples :
                    i > Len(data) \/ ~passes_assertions(data[i])}
    IN  IF bad = {} THEN ""
        ELSE IF (CHOOSE i \in bad : \A j \in bad : i <= j) > Len(data)
             THEN "KeyError"
             ELSE "AssertionError"

----------------------------------------------------------------------------
(* Class weights and fitting *)

RECURSIVE Sorted(_)
Sorted(S) ==
    IF S = {} THEN <<>>
    ELSE LET m == CHOOSE a \in S : \A b \in S : a <= b
         IN  <<m>> \o Sorted(S \ {m})

\* np.unique(df.y): the distinct labels, ascending
unique(df) == Sorted({df[i].y : i \in 1..Len(df)})

\* a slip: the share of the class for its inverse
compute_class_weight_share(df) ==
    IF df = <<>> THEN [raised |-> "IndexError", weights |-> <<>>]
    ELSE LET classes == unique(df)
         IN  [raised |-> "",
              weights |-> [j \in 1..Len(classes) |->
                  Frac(Len(classes) * Count(df, LAMBDA i : df[i].y = classes[j]),
                       Len(df))]]

\* compute_class_weight(class_weight='balanced', classes=np.unique(df.y),
\* y=df.y): for each class, in ascending order, n_samples / (n_classes *
\* the number of samples of the class).  On an empty y the index
\* recip_freq[le.transform(classes)] raises IndexError.
compute_class_weight(df) ==
    IF df = <<>> THEN [raised |-> "IndexError", weights |-> <<>>]
    ELSE LET classes == unique(df)
         IN  [raised |-> "",
              weights |-> [j \in 1..Len(classes) |->
                  Frac(Len(df),
                       Len(classes) * Count(df, LAMBDA i : df[i].y = classes[j]))]]

\* every fingerprint
Features == {smiles2fingerprint(m).x : m \in Smiles \ {NoMol}}

\* what a fitted classifier predicts is its own affair: two stand-ins, one
\* follows the first key and one goes against it
Classifiers == {[x \in Features |-> IF x[2] = b THEN 70 ELSE 30] : b \in {0, 1}}

Fitted(weights) ==
    {[raised |-> "", model |-> [class_weights |-> weights, proba |-> f]] :
        f \in Classifiers}

NoModel == [class_weights |-> <<>>, proba |-> <<>>]

\* a slip: a training table of one class fitted like any other
fit_any(train, valid, weights) == Fitted(weights)

\* CatBoostClassifier(..., class_weights=weights).fit(np.stack(train.x),
\* train.y, eval_set=(valid.x, valid.y)): the outcomes it can have.
\* np.stack raises ValueError on an empty training table; CatBoost refuses
\* a target of one value (CatBoostError); what it does with labels other
\* than 0 and 1 or with an empty eval_set is left open: it may refuse or fit.
fit(train, valid, weights) ==
    IF train = <<>>
    THEN {[raised |-> "ValueError", model |-> NoModel]}
    ELSE IF Len(unique(train)) = 1
    THEN {[raised |-> "CatBoostError", model |-> NoModel]}
    ELSE IF ~IsBinaryTarget(train) \/ ~IsBinaryTarget(valid) \/ valid = <<>>
    THEN {[raised |-> "CatBoostError", model |-> NoModel]} \cup Fitted(weights)
    ELSE Fitted(weights)

\* the threshold of the training loop, 0.5, in hundredths
threshold == 50

\* the three calls of compute_metrics, in the order of lines 773-775: the
\* first to raise ends them
metrics_of(model, train, valid, tests) ==
    LET a == compute_metrics(model, train, threshold)
        b == compute_metrics(model, valid, threshold)
        c == compute_metrics(model, tests, threshold)
    IN  [raised |-> IF a.raised # "" THEN a.raised
                    ELSE IF b.raised # "" THEN b.raised
                    ELSE c.raised,
         table |-> [train |-> a.metrics, valid |-> b.metrics, tests |-> c.metrics]]

----------------------------------------------------------------------------
(* The partition run: prepare_dataset called again and again *)

\* the longest dataset and the number of calls of the partition run
MaxRows == 3
MaxCalls == 3

\* the draws: below 0.8, 0.8 itself, 0.9 itself, above 0.9
DrawValues == {70, Frac08, Frac09, 95}

\* a filtered sample: a molecule and its label, a 0-dimensional tensor
Labelled1(m, v) == Sample(m, Tensor("float32", <<>>, <<v>>))

\* the datasets of the partition run: molecules 1..n, labels alternating
PartitionInputs ==
    {[i \in 1..n |-> Labelled1(i, IF (i + b) % 2 = 0 THEN 0 ELSE One)] :
        n \in 0..MaxRows, b \in {0, 1}}

\* the extraction run not in use
XIdle ==
    /\ xname = ""
    /\ xraw = <<>>
    /\ xout = [raised |-> "", data |-> <<>>]
    /\ xdone = FALSE

\* the metrics run not in use
MIdle ==
    /\ mmodel = [class_weights |-> <<>>, proba |-> <<>>]
    /\ mdf = <<>>
    /\ mthreshold = 0
    /\ mout = [raised |-> "", metrics |-> NoMetrics]
    /\ mdone = FALSE

\* the notebook not run
NIdle ==
    /\ pc = "off"
    /\ idx = 1
    /\ datasets = <<>>
    /\ df_train = <<>>
    /\ df_valid = <<>>
    /\ df_tests = <<>>
    /\ class_weights = <<>>
    /\ models = <<>>
    /\ results = <<>>
    /\ raised = ""

GIdle ==
    /\ stream = <<>>
    /\ rdlog = TRUE

PIdle ==
    /\ ncalls = 0
    /\ pdata = <<>>
    /\ pout = NoTables
    /\ pfirst = [data |-> <<>>, out |-> NoTables, between |-> FALSE]

PInit ==
    /\ stream \in Seqs(DrawValues, MaxRows)
    /\ rdlog = TRUE
    /\ PIdle
    /\ XIdle
    /\ MIdle
    /\ NIdle

PCall ==
    /\ ncalls < MaxCalls
    /\ \E data \in PartitionInputs :
          LET out == prepare_dataset(data)
          IN  /\ pdata' = data
              /\ pout' = out
              /\ rdlog' = LogAfter(out)
              /\ pfirst' = IF ncalls = 0
                           THEN [data |-> data, out |-> out, between |-> FALSE]
                           ELSE [pfirst EXCEPT !.between = @ \/ data # pfirst.data]
    /\ ncalls' = ncalls + 1
    /\ UNCHANGED <<stream, xvars, mvars, nvars>>

PNext == PCall

SpecPartition == PInit /\ [][PNext]_vars

XInit ==
    /\ xname \in {Names[k] : k \in 1..Len(Names)}
    /\ xraw \in RawDatasets(xname)
    /\ xout = [raised |-> "", data |-> <<>>]
    /\ xdone = FALSE
    /\ GIdle
    /\ PIdle
    /\ MIdle
    /\ NIdle

XSeries ==
    /\ ~xdone
    /\ xout' = Series(xname, xraw)
    /\ xdone' = TRUE
    /\ UNCHANGED <<xname, xraw, gvars, pvars, mvars, nvars>>

XNext == XSeries

SpecExtract == XInit /\ [][XNext]_vars

----------------------------------------------------------------------------
(* The metrics run: compute_metrics on one model and one table *)

\* the longest table of the metrics run, the toy table apart
MaxMetricRows == 3

MetricProbs == {40, threshold, 60}
MetricLabels == {0, One, Half}

\* a row of a table: molecule m with label v
Row(m, v) == [smiles |-> m, x |-> smiles2fingerprint(m).x, y |-> v]

\* a table of rows 1..n with the given labels, and a model predicting the
\* given probabilities for them
TableOf(labels) == [i \in 1..Len(labels) |-> Row(i, labels[i])]

ModelOf(probs) ==
    [class_weights |-> <<>>,
     proba |-> [x \in {smiles2fingerprint(i).x : i \in 1..Len(probs)} |->
                   probs[CHOOSE i \in 1..Len(probs) : smiles2fingerprint(i).x = x]]]

\* ten rows, labels 1,0,1,0,... with probabilities 0.9,0.1,0.8,0.2,...
ToyLabels == <<One, 0, One, 0, One, 0, One, 0, One, 0>>
ToyProbs == <<90, 10, 80, 20, 70, 30, 60, 40, 55, 45>>

MInit ==
    /\ \/ \E n \in 0..MaxMetricRows :
             \E labels \in Seqs(MetricLabels, n), probs \in Seqs(MetricProbs, n) :
                 /\ mdf = TableOf(labels)
                 /\ mmodel = ModelOf(probs)
                 /\ mthreshold \in {40, threshold}
       \/ /\ mdf = TableOf(ToyLabels)
          /\ mmodel = ModelOf(ToyProbs)
          /\ mthreshold = threshold
    /\ mout = [raised |-> "", metrics |-> NoMetrics]
    /\ mdone = FALSE
    /\ GIdle
    /\ PIdle
    /\ XIdle
    /\ NIdle

MCompute ==
    /\ ~mdone
    /\ mout' = compute_metrics(mmodel, mdf, mthreshold)
    /\ mdone' = TRUE
    /\ UNCHANGED <<mmodel, mdf, mthreshold, gvars, pvars, xvars, nvars>>

MNext == MCompute

SpecMetrics == MInit /\ [][MNext]_vars

----------------------------------------------------------------------------
(* The notebook run: the loading loop, then the training loop.  The loader *)
(* answers each name with one of a few raw datasets, built to take the run  *)
(* down each of its paths.                                                  *)

\* the raw label tensor of a dataset whose extractor is to read the label
\* v: NaN in the other columns; for lipo a raw value on the right side of 3.5
RawY(name, v) ==
    LET w == IF name # "lipo" THEN v
             ELSE IF v = One THEN AboveCutoff
             ELSE IF v = 0 THEN Cutoff
             ELSE v
    IN  Tensor("float32", <<1, tasks(name)>>,
               [j \in 1..tasks(name) |-> IF j = fixed_index(name) + 1 THEN w ELSE NaN])

\* the raw dataset whose i-th sample is molecule i, labelled labels[i]
RawOf(name, labels) == [i \in 1..Len(labels) |-> Sample(i, RawY(name, labels[i]))]

\* the variates of seed 0 are stood in for by fifteen that fall in every
\* range: test, validation, train, train, validation, test, 0.9 itself, and
\* eight more for train
NotebookStream == <<95, 85, 10, 70, Frac08, 99, Frac09, 20, 30, 40, 50, 60, 65, 75, 79>>

\* labels with both classes in each of the three tables
GoodLabels == <<0, 0, 0, One, One, One>>
\* nine negative rows and one positive row in the train table
ImbalancedLabels == <<One, One, One, 0, 0, 0, One, 0, 0, 0, 0, 0, 0, 0, 0>>
\* one class in the train table
OneClassTrainLabels == <<0, 0, 0, 0, One, One>>
\* one class in the validation table
OneClassValidLabels == <<0, 0, 0, One, 0, One>>
\* a label within the tolerance of 1.0 among the checked samples
NearOneLabels == <<OnePlusUlp, 0, 0, One, One, 0>>
\* a label of 0.5 behind the checked samples, in the test table
LateHalfLabels == <<0, 0, 0, One, One, Half>>
\* a label that is not 0 or 1 behind the checked samples, in the train table
LateTrainLabels == <<0, 0, 0, OnePlusUlp, One, One>>
\* as many samples as are checked, and no more
FewLabels == [i \in 1..CheckedSamples |-> IF i % 2 = 0 THEN One ELSE 0]
\* fewer samples than are checked
TooFewLabels == [i \in 1..(CheckedSamples - 1) |-> 0]
\* a label of 0.5 among the checked samples
EarlyHalfLabels == <<Half, 0, 0, One, One, One>>

\* the raw dataset of good labels with a sample of missing label behind
\* them, which the filter drops
WithMissing(name) == Append(RawOf(name, GoodLabels), Sample(7, RawY(name, NaN)))

\* a raw dataset with the string of the third molecule unparsable
Unparsable(name) ==
    [RawOf(name, GoodLabels) EXCEPT ![3] = Sample(NoMol, RawY(name, 0))]

\* a raw dataset whose tensors have another dtype or shape
OfTensor(t) == [i \in 1..CheckedSamples |-> Sample(i, t)]

\* pyg.datasets.MoleculeNet("./data/", name): what the loader may supply
MoleculeNet(name) ==
    CASE name = "lipo" ->
            {RawOf(name, GoodLabels), RawOf(name, OneClassTrainLabels),
             RawOf(name, FewLabels), RawOf(name, TooFewLabels),
             OfTensor(Tensor("float32", <<1, 2>>, <<Cutoff, AboveCutoff>>))}
      [] name = "hiv" ->
            {WithMissing(name), RawOf(name, NearOneLabels),
             RawOf(name, LateHalfLabels), RawOf(name, EarlyHalfLabels),
             OfTensor(Tensor("float64", <<1, 1>>, <<One>>))}
      [] name = "bbbp" ->
            {WithMissing(name), RawOf(name, ImbalancedLabels),
             RawOf(name, LateTrainLabels), RawOf(name, TooFewLabels)}
      [] name = "clintox" ->
            {WithMissing(name), RawOf(name, OneClassValidLabels),
             Unparsable(name), OfTensor(Tensor("float32", <<1, 1>>, <<One>>))}
      [] name = "tox21" ->
            {WithMissing(name), RawOf(name, ImbalancedLabels),
             OfTensor(Tensor("float32", <<1, 2>>, <<One, 0>>))}

Init ==
    /\ pc = "load"
    /\ idx = 1
    /\ datasets = <<>>
    /\ df_train = <<>>
    /\ df_valid = <<>>
    /\ df_tests = <<>>
    /\ class_weights = <<>>
    /\ models = <<>>
    /\ results = <<>>
    /\ raised = ""
    /\ stream = NotebookStream
    /\ rdlog = TRUE
    /\ XIdle
    /\ PIdle
    /\ MIdle

\* the end of one pass of the training loop: the next dataset, or the end
NextPass ==
    /\ pc' = IF idx = Len(Names) THEN "done" ELSE "prepare"
    /\ idx' = IF idx = Len(Names) THEN idx ELSE idx + 1

\* an exception ends the run
Fail(exc) ==
    /\ pc' = "failed"
    /\ raised' = exc
    /\ idx' = idx

\* lines 113-130, one pass of the loading loop: the loader's data is
\* transformed, filtered and collected (an exception in this leaves
\* datasets as it was), stored under its name, and its first samples
\* checked; after the last pass the training loop starts
LoadDataset ==
    /\ pc = "load"
    /\ \E data \in MoleculeNet(Names[idx]) :
          LET out == Series(Names[idx], data)
              exc == IF out.raised # "" THEN out.raised ELSE load_checks(out.data)
          IN  /\ datasets' = IF out.raised # "" THEN datasets
                             ELSE (Names[idx] :> out.data) @@ datasets
              /\ IF exc # "" THEN Fail(exc)
                 ELSE /\ pc' = IF idx = Len(Names) THEN "prepare" ELSE "load"
                      /\ idx' = IF idx = Len(Names) THEN 1 ELSE idx + 1
                      /\ raised' = raised
    /\ UNCHANGED <<df_train, df_valid, df_tests, class_weights, models, results,
                   gvars, xvars, pvars, mvars>>

\* line 744: df_train, df_valid, df_tests = prepare_dataset(data)
Prepare ==
    /\ pc = "prepare"
    /\ LET out == prepare_dataset(datasets[Names[idx]])
       IN  /\ rdlog' = LogAfter(out)
           /\ IF out.raised # ""
              THEN /\ Fail(out.raised)
                   /\ UNCHANGED <<df_train, df_valid, df_tests>>
              ELSE /\ df_train' = out.df_train
                   /\ df_valid' = out.df_valid
                   /\ df_tests' = out.df_tests
                   /\ pc' = "weights"
                   /\ UNCHANGED <<idx, raised>>
    /\ UNCHANGED <<datasets, class_weights, models, results, stream,
                   xvars, pvars, mvars>>

\* line 750: class_weights = compute_class_weight(...)
ClassWeights ==
    /\ pc = "weights"
    /\ LET out == compute_class_weight(df_train)
       IN  IF out.raised # ""
           THEN /\ Fail(out.raised)
                /\ UNCHANGED class_weights
           ELSE /\ class_weights' = out.weights
                /\ pc' = "fit"
                /\ UNCHANGED <<idx, raised>>
    /\ UNCHANGED <<datasets, df_train, df_valid, df_tests, models, results,
                   gvars, xvars, pvars, mvars>>

\* lines 753-768: the classifier is built and fitted, and stored in models
Fit ==
    /\ pc = "fit"
    /\ \E out \in fit(df_train, df_valid, class_weights) :
          IF out.raised # ""
          THEN /\ Fail(out.raised)
               /\ UNCHANGED models
          ELSE /\ models' = (Names[idx] :> out.model) @@ models
               /\ pc' = "metrics"
               /\ UNCHANGED <<idx, raised>>
    /\ UNCHANGED <<datasets, df_train, df_valid, df_tests, class_weights, results,
                   gvars, xvars, pvars, mvars>>

\* a slip: the entry of results made before its metrics are computed, so
\* that a failure leaves it behind
Metrics_entry_first ==
    /\ pc = "metrics"
    /\ LET out == metrics_of(models[Names[idx]], df_train, df_valid, df_tests)
       IN  /\ results' = (Names[idx] :> out.table) @@ results
           /\ IF out.raised # ""
              THEN Fail(out.raised)
              ELSE /\ NextPass
                   /\ UNCHANGED raised
    /\ UNCHANGED <<datasets, df_train, df_valid, df_tests, class_weights, models,
                   gvars, xvars, pvars, mvars>>

\* lines 770-778: the metrics of the three tables are computed and stored
\* in results
Metrics ==
    /\ pc = "metrics"
    /\ LET out == metrics_of(models[Names[idx]], df_train, df_valid, df_tests)
       IN  IF out.raised # ""
           THEN /\ Fail(out.raised)
                /\ UNCHANGED results
           ELSE /\ results' = (Names[idx] :> out.table) @@ results
                /\ NextPass
                /\ UNCHANGED raised
    /\ UNCHANGED <<datasets, df_train, df_valid, df_tests, class_weights, models,
                   gvars, xvars, pvars, mvars>>

Next ==
    \/ LoadDataset
    \/ Prepare
    \/ ClassWeights
    \/ Fit
    \/ Metrics

Spec == Init /\ [][Next]_vars

----------------------------------------------------------------------------
(* Claims on the notebook run, checked under Spec *)

\* the training loop has taken up the k-th dataset
TakenUp(k) ==
    \/ pc = "done"
    \/ pc \in {"prepare", "weights", "fit", "metrics"} /\ k < idx
    \/ pc \in {"weights", "fit", "metrics"} /\ k = idx

\* C1: every sample of a dataset handed to prepare_dataset has a label
\* that is exactly 0.0 or exactly 1.0, at any position of the dataset.
C1_LabelsExact ==
    \A k \in 1..Len(Names) :
        TakenUp(k) =>
            \A i \in 1..Len(datasets[Names[k]]) :
                item(datasets[Names[k]][i].y) \in {0, One}

\* the rows of a table are of one class
OneClass(df) == df # <<>> /\ \A i \in 1..Len(df) : df[i].y = df[1].y

C9_FailureKeepsEntries ==
    [][/\ pc # "failed"
       /\ \A n \in DOMAIN models : n \in DOMAIN models' /\ models'[n] = models[n]
       /\ \A n \in DOMAIN results : n \in DOMAIN results' /\ results'[n] = results[n]
       /\ (pc \in {"prepare", "weights", "fit", "metrics"} /\ pc' = "failed") =>
             /\ raised' # ""
             /\ models' = models
             /\ results' = results
             /\ Names[idx] \notin DOMAIN results']_vars

\* a failure in compute_metrics after two datasets were completed
C9_Witness ==
    /\ pc = "failed"
    /\ raised = "ValueError"
    /\ idx > 2
    /\ DOMAIN results = {Names[k] : k \in 1..(idx - 1)}
    /\ DOMAIN models = {Names[k] : k \in 1..idx}

\* the number of rows of the train table with label c
InClass(c) == Count(df_train, LAMBDA i : df_train[i].y = c)

\* the labels of the train table
TrainClasses == {df_train[i].y : i \in 1..Len(df_train)}

\* w is the balanced weight of class c
IsBalanced(w, c) ==
    w.num * (Cardinality(TrainClasses) * InClass(c)) = w.den * Len(df_train)

\* C10: the class weights given to the classifier are the balanced
\* weights of the train table, one per class present in ascending order
\* of the class; with two classes weight(1) * count(1) = weight(0) *
\* count(0), and nine negative rows to each positive row give a positive
\* weight nine times the negative weight.
C10_BalancedWeights ==
    pc \in {"fit", "metrics"} =>
        /\ Len(class_weights) = Cardinality(TrainClasses)
        /\ \A j \in 1..Len(class_weights) :
              \E c \in TrainClasses :
                 /\ Cardinality({d \in TrainClasses : d < c}) = j - 1
                 /\ IsBalanced(class_weights[j], c)
        /\ TrainClasses = {0, One} =>
              /\ FracMul(class_weights[2], Frac(InClass(One), 1))
                    = FracMul(class_weights[1], Frac(InClass(0), 1))
              /\ InClass(0) = 9 * InClass(One) =>
                    class_weights[2] = FracMul(Frac(9, 1), class_weights[1])
        /\ pc = "metrics" => models[Names[idx]].class_weights = class_weights

\* a train table of nine negative rows and one positive row, out of a
\* dataset of eleven negative and four positive
C10_Witness ==
    /\ pc = "metrics"
    /\ InClass(0) = 9
    /\ InClass(One) = 1
    /\ Len(df_train) = 10
    /\ Len(datasets[Names[idx]]) = 15
    /\ class_weights = <<Frac(5, 9), Frac(5, 1)>>

\* C12: the log is enabled in every state in which no call of
\* prepare_dataset is in progress: a call that returned, or was ended by
\* a string that does not parse, has enabled it again.  (A call of
\* prepare_dataset is one step, so no state is inside a call.)
C12_LogEnabledOutsideCall == rdlog = TRUE

\* the names of the first k datasets
FirstNames(k) == {Names[j] : j \in 1..k}

\* the dataset stored under the name has samples enough for the load-time
\* assertions, and they hold of them
Validated(name) ==
    /\ name \in DOMAIN datasets
    /\ Len(datasets[name]) >= CheckedSamples
    /\ \A i \in 1..CheckedSamples : passes_assertions(datasets[name][i])

\* C13: the datasets are loaded in the order lipo, hiv, bbbp, clintox,
\* tox21, and none is trained on before all five are loaded and have
\* passed the load-time assertions: while they are loaded, and after a
\* failure of loading or of an assertion, models and results are empty.
\* The datasets are trained on in the same order, and those with results
\* are among those with a model, which are among the loaded.
C13_TrainAfterAllLoads ==
    /\ DOMAIN results \subseteq DOMAIN models
    /\ DOMAIN models \subseteq DOMAIN datasets
    /\ \E k \in 0..Len(Names) : DOMAIN datasets = FirstNames(k)
    /\ pc = "load" => DOMAIN datasets = FirstNames(idx - 1)
    /\ (pc \in {"prepare", "weights", "fit", "metrics", "done"}
           \/ models # <<>> \/ results # <<>>) =>
          \A k \in 1..Len(Names) : Validated(Names[k])
    /\ \A k \in 1..Len(Names) :
          Names[k] \in DOMAIN models => FirstNames(k - 1) \subseteq DOMAIN results

\* the third dataset fails an assertion, or is too short for them, after
\* two were loaded
C13_Witness ==
    /\ pc = "failed"
    /\ raised \in {"AssertionError", "KeyError"}
    /\ DOMAIN datasets = FirstNames(3)
    /\ ~Validated(Names[3])
    /\ models = <<>>
    /\ results = <<>>

----------------------------------------------------------------------------
(* Claims on label extraction and the filter, under SpecExtract *)

\* the element of a raw label tensor the dataset's extractor reads
ReadValue(name, t) == t.data[fixed_index(name) + 1]

\* the label a raw tensor stands for: the value read, thresholded for lipo
LabelOf(name, t) ==
    IF name = "lipo"
    THEN (IF ReadValue(name, t) # NaN /\ ReadValue(name, t) > Cutoff THEN One ELSE 0)
    ELSE ReadValue(name, t)

\* the raw samples whose label is not NaN, in their order
Labelled(name, raw) == SelectSeq(raw, LAMBDA s : LabelOf(name, s.y) # NaN)

\* C4: when extraction raises nothing, the filter's output is the raw
\* samples whose extracted label (the single scalar for hiv and bbbp, the
\* element at index 2 for tox21 and 0 for clintox, whatever the other
\* elements are) is not NaN, in their original order, each with its smiles
\* and its extracted label as a 0-dimensional tensor.
C4_FilterKeepsLabelled ==
    (xdone /\ xout.raised = "") =>
        LET want == Labelled(xname, xraw)
        IN  /\ Len(xout.data) = Len(want)
            /\ \A i \in 1..Len(want) :
                  /\ xout.data[i].smiles = want[i].smiles
                  /\ xout.data[i].y.shape = <<>>
                  /\ xout.data[i].y.data = <<LabelOf(xname, want[i].y)>>

\* a tox21 run of three samples: the first has NaN beside a defined value
\* at index 2 and survives, the second has NaN at index 2 and is dropped,
\* the third survives behind the first
C4_Witness ==
    /\ xdone
    /\ xname = "tox21"
    /\ xout.raised = ""
    /\ Len(xraw) = 3
    /\ xraw[1].y.data = <<NaN, NaN, One>>
    /\ xraw[2].y.data = <<One, One, NaN>>
    /\ xraw[3].y.data[3] = 0
    /\ Len(xout.data) = 2
    /\ xout.data[1].smiles = 1
    /\ xout.data[2].smiles = 3

\* C5: for lipo samples of one raw value each, nothing is raised, no
\* sample is dropped, and the label of each is 1.0 if its raw value is
\* greater than 3.5 and 0.0 otherwise (3.5 itself and NaN give 0.0).
C5_LipoThreshold ==
    (xdone /\ xname = "lipo" /\ \A i \in 1..Len(xraw) : numel(xraw[i].y) = 1) =>
        /\ xout.raised = ""
        /\ Len(xout.data) = Len(xraw)
        /\ \A i \in 1..Len(xraw) :
              LET v == xraw[i].y.data[1]
              IN  /\ xout.data[i].smiles = xraw[i].smiles
                  /\ xout.data[i].y.data =
                        <<IF v # NaN /\ v > Cutoff THEN One ELSE 0>>

\* a lipo run over 3.5 itself, the float above it, and NaN
C5_Witness ==
    /\ xdone
    /\ xname = "lipo"
    /\ Len(xraw) = 3
    /\ xraw[1].y.data = <<Cutoff>>
    /\ xraw[2].y.data = <<AboveCutoff>>
    /\ xraw[3].y.data = <<NaN>>
    /\ Len(xout.data) = 3
    /\ xout.data[1].y.data = <<0>>
    /\ xout.data[2].y.data = <<One>>
    /\ xout.data[3].y.data = <<0>>

\* the shapes a dataset's extractor is written for: one element for the
\* scalar extractors, a row of the dataset's label columns for the indexed
IsIndexed(name) == name \in {"tox21", "clintox"}

ExpectedShape(name, t) ==
    IF IsIndexed(name)
    THEN t.shape \in {<<tasks(name)>>, <<1, tasks(name)>>}
    ELSE numel(t) = 1

\* C8 as stated: a raw label tensor of a shape other than the one the
\* extractor expects makes extraction raise.
C8_MismatchAlwaysRaises ==
    (xdone /\ \E i \in 1..Len(xraw) : ~ExpectedShape(xname, xraw[i].y)) =>
        xout.raised # ""

\* the sizes of a tensor's dimensions other than 1
Dims(t) == SelectSeq(t.shape, LAMBDA d : d # 1)

\* what the code cannot extract from: more or fewer than one element for a
\* scalar extractor; for an indexed one, a tensor that without its
\* dimensions of size 1 is not a vector longer than the fixed index
Unextractable(name, t) ==
    IF IsIndexed(name)
    THEN Len(Dims(t)) # 1 \/ Dims(t)[1] <= fixed_index(name)
    ELSE numel(t) # 1

\* C8 as amended: extraction raises exactly when some raw tensor is
\* unextractable, and then no sample of the dataset yields a label; a
\* longer vector, or a tensor of higher rank that squeezes to a vector, is
\* accepted and labelled by the element at the fixed index.
C8_RaisesIffUnextractable ==
    xdone =>
        /\ xout.raised # "" <=>
              \E i \in 1..Len(xraw) : Unextractable(xname, xraw[i].y)
        /\ xout.raised # "" => xout.data = <<>>
        /\ xout.raised = "" =>
              \A i \in 1..Len(xout.data) :
                  \E j \in 1..Len(xraw) :
                      /\ xraw[j].smiles = xout.data[i].smiles
                      /\ xout.data[i].y.data = <<LabelOf(xname, xraw[j].y)>>

\* a tox21 vector of two elements: index 2 is out of range
C8_Witness ==
    /\ xdone
    /\ xname = "tox21"
    /\ Len(xraw) = 1
    /\ xraw[1].y.shape = <<1, 2>>
    /\ xout.raised = "IndexError"
    /\ xout.data = <<>>

----------------------------------------------------------------------------
(* Claims on prepare_dataset, under SpecPartition *)

InTable(table, smiles) == \E k \in 1..Len(table) : table[k].smiles = smiles

\* C2: after a call that raised nothing, the row at position i, whose draw
\* is u, is in the train table iff u < 0.8, in the validation table iff
\* 0.8 <= u < 0.9 and in the test table iff u > 0.9; so it is in at most
\* one table, in none if u is 0.9, in exactly one otherwise; and the tables
\* hold nothing but rows of the data, with their labels.
C2_SplitByDraw ==
    (ncalls > 0 /\ pout.raised = "") =>
        /\ \A i \in 1..Len(pdata) :
              LET u == stream[i]
                  tr == InTable(pout.df_train, pdata[i].smiles)
                  va == InTable(pout.df_valid, pdata[i].smiles)
                  te == InTable(pout.df_tests, pdata[i].smiles)
              IN  /\ tr <=> u < 80
                  /\ va <=> (80 <= u /\ u < 90)
                  /\ te <=> u > 90
                  /\ ~(tr /\ va) /\ ~(tr /\ te) /\ ~(va /\ te)
                  /\ u = 90 => ~(tr \/ va \/ te)
                  /\ u # 90 => (tr \/ va \/ te)
        /\ Len(pout.df_train) + Len(pout.df_valid) + Len(pout.df_tests) <= Len(pdata)
        /\ \A t \in {pout.df_train, pout.df_valid, pout.df_tests} :
              \A k \in 1..Len(t) :
                  \E i \in 1..Len(pdata) :
                      t[k].smiles = pdata[i].smiles /\ t[k].y = pdata[i].y.data[1]

\* three rows drawn 0.8, 0.9 and above 0.9: one in validation, one in no
\* table, one in test
C2_Witness ==
    /\ ncalls > 0
    /\ pout.raised = ""
    /\ Len(pdata) = 3
    /\ stream = <<80, 90, 95>>
    /\ Len(pout.df_train) = 0
    /\ Len(pout.df_valid) = 1
    /\ Len(pout.df_tests) = 1
    /\ pout.df_tests[1].smiles = 3

Encoded ==
    {pout.df_train[k] : k \in 1..Len(pout.df_train)}
        \cup {pout.df_valid[k] : k \in 1..Len(pout.df_valid)}
        \cup {pout.df_tests[k] : k \in 1..Len(pout.df_tests)}

\* C11: the fingerprint of every string that parses is a vector of length
\* exactly 166, each component 0 or 1, and the same for the same string,
\* in this call and in the first.
C11_Length166 ==
    \A row \in Encoded :
        /\ Len(row.x) = NumKeys
        /\ \A i \in 1..Len(row.x) : row.x[i] \in {0, 1}
        /\ \A k \in 1..Len(pfirst.out.df_train) :
              pfirst.out.df_train[k].smiles = row.smiles =>
                 pfirst.out.df_train[k].x = row.x

----------------------------------------------------------------------------
(* Claims on compute_metrics, under SpecMetrics *)

MProb(i) == mmodel.proba[mdf[i].x]
MRows == 1..Len(mdf)
MPositive == {i \in MRows : mdf[i].y = One}
MAbove == {i \in MRows : MProb(i) > mthreshold}
IsOne(f) == f.num = f.den /\ f.den # 0

====
